---------------------------- MODULE Spec2Model ----------------------------
(***************************************************************************)
(* The custom EMG distributions of Stats_with_Scipy.ipynb: the generating  *)
(* classes EMG_gen1, EMG_gen2, EMG_gen3 (subclasses of rv_continuous), the  *)
(* three generator objects EMG1, EMG2, EMG3 and the calls a session makes   *)
(* on them (pdf, cdf, ppf, _ppf, stats, rvs, fit).                          *)
(*                                                                         *)
(* Numbers.  Lengths (x, mu, sig, 1/lam) are fixed point, LenScale units    *)
(* per 1.0; lam is a whole rate.  A probability is a level 0..QLevels       *)
(* (level j stands for j/QLevels; level QLevels is the double 1.0).  NaN    *)
(* is kept apart from every number: a comparison with it is false.          *)
(***************************************************************************)
EXTENDS Integers, Sequences, FiniteSets, TLC

(***************************************************************************)
(* Program constants and the resolution of the model.                      *)
(***************************************************************************)
StepDenom == 100
RangeSds == 50
ExpMaxCenti == 70978
NdtrZeroDeci == 385
StepUnits == 1000
MaxSize == 2
RngPeriod == 3
Step == StepUnits
LenScale == StepDenom * StepUnits

(***************************************************************************)
(* Floats as the calls receive them: a finite fixed-point number, NaN or    *)
(* an infinity.                                                             *)
(***************************************************************************)
Fin(n) == [k |-> "fin", v |-> n]
NaNf == [k |-> "nan", v |-> 0]
PInf == [k |-> "pinf", v |-> 0]
NInf == [k |-> "ninf", v |-> 0]
IsFinite(f) == f.k = "fin"
Gt0(f) == (f.k = "fin" /\ f.v > 0) \/ f.k = "pinf"

\* NaN among the fixed-point numbers and levels of a computation: a value no
\* length or level of the model takes.
NaN == -2147483647
IsNaN(a) == a = NaN
Lt(a, b) == (~IsNaN(a)) /\ (~IsNaN(b)) /\ a < b
Le(a, b) == (~IsNaN(a)) /\ (~IsNaN(b)) /\ a <= b
Ge(a, b) == Le(b, a)
Gt(a, b) == Lt(b, a)
FEq(a, b) == (~IsNaN(a)) /\ (~IsNaN(b)) /\ a = b

Abs(n) == IF n < 0 THEN -n ELSE n
CeilDiv(a, b) == -((-a) \div b)

\* floor of the square root, by bisection on 0..n
RECURSIVE ISqrtBis(_, _, _)
ISqrtBis(n, lo, hi) ==
    IF hi - lo <= 1 THEN lo
    ELSE LET mid == (lo + hi) \div 2
         IN IF mid * mid <= n THEN ISqrtBis(n, mid, hi) ELSE ISqrtBis(n, lo, mid)
Sqrt(n) == ISqrtBis(n, 0, 46340)

(***************************************************************************)
(* Classes, generator objects and method lookup.                           *)
(***************************************************************************)
Gens == {"EMG1", "EMG2", "EMG3"}
ClassOf(g) ==
    CASE g = "EMG1" -> "EMG_gen1"
      [] g = "EMG2" -> "EMG_gen2"
      [] g = "EMG3" -> "EMG_gen3"

\* the base class of each class.  BaseDirect is the hierarchy in which every
\* generating class derives from rv_continuous itself.
BaseDirect(cls) ==
    IF cls \in {"EMG_gen1", "EMG_gen2", "EMG_gen3"} THEN "rv_continuous"
    ELSE "object"
Base(cls) ==
    CASE cls = "EMG_gen1" -> "rv_continuous"
      [] cls = "EMG_gen2" -> "EMG_gen1"
      [] cls = "EMG_gen3" -> "EMG_gen1"
      [] OTHER -> "object"

Defines(cls) ==
    CASE cls = "EMG_gen1" -> {"_pdf", "_cdf", "_stats", "_argcheck"}
      [] cls = "EMG_gen2" -> {"_ppf"}
      [] cls = "EMG_gen3" -> {"_rvs"}
      [] cls = "rv_continuous" -> {"_pdf", "_cdf", "_ppf", "_rvs", "_stats", "_argcheck"}
      [] OTHER -> {}

\* attribute lookup along the base classes
RECURSIVE Lookup(_, _)
Lookup(cls, m) ==
    IF m \in Defines(cls) THEN cls
    ELSE IF cls = "object" THEN "object"
    ELSE Lookup(Base(cls), m)

Body(cls, m) == cls \o "." \o m

(***************************************************************************)
(* EMG_gen1: the analytic members.                                         *)
(***************************************************************************)

\* _argcheck(self, mu, sig, lam) on the floats a call passes.  NoSigCheck
\* leaves out the test of sig and ArgcheckGe admits sig = 0.
NoSigCheck(mu, sig, lam) == IsFinite(mu) /\ Gt0(lam)
ArgcheckGe(mu, sig, lam) ==
    IsFinite(mu) /\ ((sig.k = "fin" /\ sig.v >= 0) \/ sig.k = "pinf") /\ Gt0(lam)
Argcheck(mu, sig, lam) == IsFinite(mu) /\ Gt0(sig) /\ Gt0(lam)

\* _pdf: the value of the density formula at these arguments, kept as a term
Pdf(x, mu, sig, lam) == <<"EMG_gen1._pdf", x, mu, sig, lam>>

\* v = lam * sig, the shape of the standardised distribution
ShapeV(sig, lam) == (lam * sig) \div LenScale

\* The levels of phi1 - phi2 * exp(-u + v^2/2) as a function of z = u / v:
\* entry j is 1000 * z at which the value reaches j/QLevels (the last one: at
\* which the double result is 1.0).  Tabulated for the shapes 1, 2, 15 and 30
\* of the session's arguments; another shape reads the nearest row.
ZLevels(v) ==
    CASE v <= 1 -> <<-510, 44, 475, 876, 1299, 1804, 2561, 37930>>
      [] v = 2 -> <<-765, -257, 126, 473, 825, 1226, 1777, 19715>>
      [] v \in 3..15 -> <<-1086, -609, -252, 67, 386, 743, 1220, 8318>>
      [] v > 15 -> <<-1117, -641, -285, 34, 353, 709, 1185, 8293>>
QLevels == Len(ZLevels(1))

\* np.exp(-u + 0.5 * v**2) is inf: the argument is above log(DBL_MAX)
ExpOverflows(u, v) ==
    (-u) + (v * v * LenScale) \div 2 > ExpMaxCenti * (LenScale \div 100)

\* phi2 = norm.cdf(u, loc=v**2, scale=v) is 0.0: (u - v^2)/v is below -38.5
Phi2IsZero(u, v) ==
    u - v * v * LenScale < -(NdtrZeroDeci * v * (LenScale \div 10))

\* _cdf(self, x, mu, sig, lam), mu, sig, lam valid numbers.  CdfNoOverflow is
\* the value in exact arithmetic, which the cumulative of the base class
\* approximates.
CdfNoOverflow(x, mu, sig, lam) ==
    LET v == ShapeV(sig, lam)
        Z == ZLevels(v)
    IN Cardinality({j \in 1..Len(Z) : (x - mu) * 1000 >= Z[j] * sig})
Cdf(x, mu, sig, lam) ==
    LET u == lam * (x - mu)
        v == ShapeV(sig, lam)
        Z == ZLevels(v)
    IN IF ExpOverflows(u, v) /\ Phi2IsZero(u, v)
       THEN NaN
       ELSE Cardinality({j \in 1..Len(Z) : (x - mu) * 1000 >= Z[j] * sig})

\* _stats: mean and variance in fixed point, skewness and kurtosis as terms
Stats(mu, sig, lam) ==
    [mean |-> mu + LenScale \div lam,
     var |-> sig * sig + (LenScale \div lam) * (LenScale \div lam),
     skew |-> <<"EMG_gen1._stats.skew", sig, lam>>,
     kurt |-> <<"EMG_gen1._stats.kurt", sig, lam>>]

(***************************************************************************)
(* EMG_gen2._ppf: the interpolation table and np.interp.                   *)
(***************************************************************************)

\* np.arange(start, stop, step): ceil((stop - start)/step) values from start
Arange(start, stop, step) ==
    [k \in 1..CeilDiv(stop - start, step) |-> start + (k - 1) * step]

\* x and y of EMG_gen2._ppf; y = self.cdf(x, mu, sig, lam) is _cdf at every x
\* (the arguments are valid and every x is inside the support)
Table(mu, sig, lam) ==
    LET var == sig * sig + (LenScale \div lam) * (LenScale \div lam)
        x == Arange(mu - RangeSds * Sqrt(var), mu + RangeSds * Sqrt(var), Step)
    IN [x |-> x, y |-> [k \in 1..Len(x) |-> Cdf(x[k], mu, sig, lam)]]

\* the bisection of np.interp's search, on 0-based indices of arr
RECURSIVE Bisect(_, _, _, _)
Bisect(key, arr, imin, imax) ==
    IF imin < imax
    THEN LET imid == imin + (imax - imin) \div 2
         IN IF Ge(key, arr[imid + 1])
            THEN Bisect(key, arr, imid + 1, imax)
            ELSE Bisect(key, arr, imin, imid)
    ELSE imin - 1

\* the linear search np.interp uses on arrays of at most 4 entries
RECURSIVE SearchLinear(_, _, _)
SearchLinear(key, arr, i) ==
    IF i < Len(arr) /\ Ge(key, arr[i + 1])
    THEN SearchLinear(key, arr, i + 1)
    ELSE i - 1

\* np.interp's search for one key (its guess is 0, raised to 1): the 0-based
\* index j with arr[j] <= key < arr[j+1] of a sorted arr, -1 and len outside.
\* The entries next to the guess are tried first, then the bisection runs on
\* what is left; every test is a comparison of doubles, false on NaN.
LikelyInCache == 8
Search(key, arr) ==
    LET n == Len(arr)
        at(k) == arr[k + 1]
        g == 1
    IN IF Gt(key, at(n - 1)) THEN n
       ELSE IF Lt(key, at(0)) THEN -1
       ELSE IF n <= 4 THEN SearchLinear(key, arr, 1)
       ELSE IF Lt(key, at(g))
       THEN IF Lt(key, at(g - 1)) THEN Bisect(key, arr, 0, g - 1) ELSE g - 1
       ELSE IF Lt(key, at(g + 1)) THEN g
       ELSE IF Lt(key, at(g + 2)) THEN g + 1
       ELSE Bisect(key, arr, g + 2,
                   IF g < n - LikelyInCache - 1 /\ Lt(key, at(g + LikelyInCache))
                   THEN g + LikelyInCache
                   ELSE n)

\* The tables of the numeric arguments a session can pass, each built once
\* for the model checker; whatever else is passed has its table built anew.
TableMemo ==
    [a \in {0} \X {-Step, 0, 2 * Step, 4 * Step} \X {50, 750} |->
        Table(a[1], a[2], a[3])]
TableFor(mu, sig, lam) ==
    IF <<mu, sig, lam>> \in DOMAIN TableMemo
    THEN TableMemo[<<mu, sig, lam>>]
    ELSE Table(mu, sig, lam)

\* np.interp(q, xp, fp) for one q
Interp(q, xp, fp) ==
    IF IsNaN(q) THEN NaN
    ELSE LET j == Search(q, xp)
         IN IF j = -1 THEN fp[1]
            ELSE IF j >= Len(xp) - 1 THEN fp[Len(xp)]
            ELSE IF FEq(xp[j + 1], q) THEN fp[j + 1]
            ELSE IF IsNaN(xp[j + 1]) \/ IsNaN(xp[j + 2]) THEN NaN
            ELSE fp[j + 1]
                 + ((fp[j + 2] - fp[j + 1]) * (q - xp[j + 1]))
                       \div (xp[j + 2] - xp[j + 1])

\* EMG_gen2._ppf(self, q, mu, sig, lam) for one q
Ppf2(q, mu, sig, lam) ==
    LET t == TableFor(mu, sig, lam) IN Interp(q, t.y, t.x)

(***************************************************************************)
(* rv_continuous._ppf: one root-find of cdf(x) - q per q (_ppf_single):     *)
(* brentq on the bracket [-10, 10], which holds the root for the arguments  *)
(* of the session; a bracket end at which _cdf is NaN gives no root.        *)
(***************************************************************************)
PpfSolve(q, mu, sig, lam) ==
    LET left == -10 * LenScale
        right == 10 * LenScale
        Z == ZLevels(ShapeV(sig, lam))
    IN IF IsNaN(Cdf(left, mu, sig, lam)) \/ IsNaN(Cdf(right, mu, sig, lam))
       THEN NaN
       ELSE mu + CeilDiv(Z[q] * sig, 1000)

(***************************************************************************)
(* The random source: a stream is a position in a cycle of RngPeriod        *)
(* states; a draw reads the position and advances it.                       *)
(***************************************************************************)
SeedPos(seed) == seed % RngPeriod
Advance(p, n) == (p + n) % RngPeriod
UniformAt(p) == 1 + (p % (QLevels - 1))
StdNormalAt(p) == (p % 3) - 1
StdExponAt(p) == (p + 1) % 2
\* n values of kind f drawn from position p
DrawAt(kind, p) ==
    CASE kind = "random_sample" -> UniformAt(p)
      [] kind = "standard_normal" -> StdNormalAt(p)
      [] kind = "standard_exponential" -> StdExponAt(p)
DrawsAt(kind, n, p) == [i \in 1..n |-> DrawAt(kind, Advance(p, i - 1))]

(***************************************************************************)
(* Dispatch: the member a call on class cls runs.  The members of the base *)
(* class rv_continuous are its numerical fallbacks.                         *)
(***************************************************************************)
CallArgcheck(cls, mu, sig, lam) ==
    IF Lookup(cls, "_argcheck") = "EMG_gen1"
    THEN Argcheck(mu, sig, lam)
    ELSE Gt0(mu) /\ Gt0(sig) /\ Gt0(lam)

CallPdf(cls, x, mu, sig, lam) ==
    IF Lookup(cls, "_pdf") = "EMG_gen1"
    THEN Pdf(x, mu, sig, lam)
    ELSE <<"rv_continuous._pdf", x, mu, sig, lam>>

CallCdf(cls, x, mu, sig, lam) ==
    IF Lookup(cls, "_cdf") = "EMG_gen1"
    THEN Cdf(x, mu, sig, lam)
    ELSE CdfNoOverflow(x, mu, sig, lam)

CallStats(cls, mu, sig, lam) ==
    IF Lookup(cls, "_stats") = "EMG_gen1"
    THEN Stats(mu, sig, lam)
    ELSE [Stats(mu, sig, lam) EXCEPT
             !.skew = <<"rv_continuous._stats.skew", sig, lam>>,
             !.kurt = <<"rv_continuous._stats.kurt", sig, lam>>]

\* self._ppf(q, ...) on a sequence qs: the values
CallPpf(cls, qs, mu, sig, lam) ==
    IF Lookup(cls, "_ppf") = "EMG_gen2"
    THEN LET t == TableFor(mu, sig, lam)
         IN [i \in 1..Len(qs) |-> Interp(qs[i], t.y, t.x)]
    ELSE [i \in 1..Len(qs) |-> PpfSolve(qs[i], mu, sig, lam)]

\* n copies of the events ev, one after the other
RECURSIVE Repeat(_, _)
Repeat(ev, n) == IF n <= 0 THEN <<>> ELSE ev \o Repeat(ev, n - 1)

\* self._ppf(q, ...) on n values: the members and library calls it runs.
\* Ppf2EventsPerValue is a _ppf that is run once for each value.
Ppf2EventsPerValue(n) ==
    Repeat(<<"EMG_gen2._ppf", "np.arange", "EMG_gen1._cdf", "np.interp">>, n)
Ppf2Events(n) == <<"EMG_gen2._ppf", "np.arange", "EMG_gen1._cdf", "np.interp">>
PpfEvents(cls, n) ==
    IF Lookup(cls, "_ppf") = "EMG_gen2"
    THEN Ppf2Events(n)
    ELSE <<"rv_continuous._ppf">>
             \o Repeat(<<"_ppf_single", "brentq", "EMG_gen1._cdf">>, n)

\* a + b of two arrays under numpy broadcasting.  ArrayConcat is + on lists.
CanBroadcast(a, b) == Len(a) = Len(b) \/ Len(a) = 1 \/ Len(b) = 1
ArrayConcat(a, b) == a \o b
ArrayAdd(a, b) ==
    LET n == IF Len(a) >= Len(b) THEN Len(a) ELSE Len(b)
        at(s, i) == IF Len(s) = 1 THEN s[1] ELSE s[i]
        sum(p, q) == IF IsNaN(p) \/ IsNaN(q) THEN NaN ELSE p + q
    IN [i \in 1..n |-> sum(at(a, i), at(b, i))]

(***************************************************************************)
(* The session: the shape arguments its calls pass, the attributes of the   *)
(* generator objects, the random streams, the calls in progress.            *)
(***************************************************************************)
VARIABLES
    args,     \* mu, sig, lam the calls of the session pass
    size,     \* self._size of each generator object
    rstate,   \* self._random_state of each generator object: a stream
    rngpos,   \* the position of each stream: 0 is numpy's global one,
              \* c the RandomState made for caller c's random_state=seed
    pc,       \* where each caller is
    frame,    \* the locals of each caller's rvs call
    last,     \* the call that returned or raised last
    seeded    \* the first rvs call with a random_state that returned
\* last is the latest call once it has returned or raised; NoCall while an
\* rvs call that has just been entered is under way.

vars == <<args, size, rstate, rngpos, pc, frame, last, seeded>>

Callers == {1, 2}
Streams == {0} \cup Callers

\* the inputs of the calls
MuSet == {Fin(0), NaNf, PInf, NInf}
SigSet == {Fin(-Step), Fin(0), Fin(2 * Step), Fin(4 * Step), NaNf}
LamSet == {Fin(-50), Fin(0), Fin(50), Fin(750), NaNf}
HalfSteps == {-500, -180} \cup (-10..16) \cup {60, 170, 500}
XInputs == {k * (Step \div 2) : k \in HalfSteps}
EvalX == {k * (Step \div 2) : k \in {-180, 1, 500}}
QInputs == 0..QLevels
EvalQ == {0, 1, QLevels - 1, QLevels}
Seeds == 0..1
FitNames == {"EMG"} \cup Gens

\* the names the notebook has bound when the fit cell runs
Namespace ==
    {"np", "st", "erfc", "plt", "hist", "mpl_style", "norm", "x", "sample_norm",
     "i", "EMG_gen1", "EMG_gen2", "EMG_gen3", "EMG1", "EMG2", "EMG3", "dist",
     "sample_emg"}

\* a call that ended: what was called on which generator with which input
\* (x, q or size) and seed, the kind of its result and the result, the members
\* and library calls it ran in order, and for rvs the draws it made
Rec(op, g, inp, seed, kind, val, trace) ==
    [op |-> op, gen |-> g, inp |-> inp, seed |-> seed, kind |-> kind,
     val |-> val, trace |-> trace, draws |-> <<>>]
NoCall == Rec("none", "", 0, 0, "none", 0, <<>>)
NoFrame ==
    [g |-> "", n |-> 0, seed |-> 0, saved |-> 0, part |-> <<>>, vals |-> <<>>,
     trace |-> <<>>, err |-> FALSE, draws |-> <<>>]

Mu == args.mu.v
Sig == args.sig.v
Lam == args.lam.v
ArgcheckEvent(g) == <<Body(Lookup(ClassOf(g), "_argcheck"), "_argcheck")>>
ArgsOk(g) == CallArgcheck(ClassOf(g), args.mu, args.sig, args.lam)
Member(g, m) == Body(Lookup(ClassOf(g), m), m)

Init ==
    /\ args \in [mu : MuSet, sig : SigSet, lam : LamSet]
    /\ size = [g \in Gens |-> 1]
    /\ rstate = [g \in Gens |-> 0]
    /\ rngpos = [s \in Streams |-> 0]
    /\ pc = [c \in Callers |-> "idle"]
    /\ frame = [c \in Callers |-> NoFrame]
    /\ last = NoCall
    /\ seeded = NoCall

(***************************************************************************)
(* The public methods of rv_continuous, on generator object g by caller c. *)
(***************************************************************************)
Quiet == UNCHANGED <<args, size, rstate, rngpos, pc, frame, seeded>>

\* g._argcheck(mu, sig, lam)
ArgcheckCall(c, g) ==
    /\ pc[c] = "idle"
    /\ last' = Rec("_argcheck", g, 0, 0, "bool", ArgsOk(g), ArgcheckEvent(g))
    /\ Quiet

\* g.pdf(x, mu, sig, lam)
PdfCall(c, g, x) ==
    /\ pc[c] = "idle"
    /\ last' = IF ArgsOk(g)
               THEN Rec("pdf", g, x, 0, "term",
                        CallPdf(ClassOf(g), x, Mu, Sig, Lam),
                        ArgcheckEvent(g) \o <<Member(g, "_pdf")>>)
               ELSE Rec("pdf", g, x, 0, "num", NaN, ArgcheckEvent(g))
    /\ Quiet

\* g.cdf(x, mu, sig, lam)
CdfCall(c, g, x) ==
    /\ pc[c] = "idle"
    /\ last' = IF ArgsOk(g)
               THEN Rec("cdf", g, x, 0, "num",
                        CallCdf(ClassOf(g), x, Mu, Sig, Lam),
                        ArgcheckEvent(g) \o <<Member(g, "_cdf")>>)
               ELSE Rec("cdf", g, x, 0, "num", NaN, ArgcheckEvent(g))
    /\ Quiet

\* g.ppf(q, mu, sig, lam): the ends of the support at q = 0 and q = 1
PpfCall(c, g, q) ==
    /\ pc[c] = "idle"
    /\ last' = IF ~ArgsOk(g)
               THEN Rec("ppf", g, q, 0, "num", NaN, ArgcheckEvent(g))
               ELSE IF q = 0
               THEN Rec("ppf", g, q, 0, "ninf", 0, ArgcheckEvent(g))
               ELSE IF q = QLevels
               THEN Rec("ppf", g, q, 0, "pinf", 0, ArgcheckEvent(g))
               ELSE Rec("ppf", g, q, 0, "num",
                        CallPpf(ClassOf(g), <<q>>, Mu, Sig, Lam)[1],
                        ArgcheckEvent(g) \o PpfEvents(ClassOf(g), 1))
    /\ Quiet

\* EMG2._ppf(q, mu, sig, lam), called as it stands on valid arguments
PpfDirect(c, q) ==
    /\ pc[c] = "idle"
    /\ ArgsOk("EMG2")
    /\ last' = Rec("_ppf", "EMG2", q, 0, "num", Ppf2(q, Mu, Sig, Lam),
                   Ppf2Events(1))
    /\ Quiet

\* EMG2._ppf(EMG2.cdf(x, mu, sig, lam), mu, sig, lam) on valid arguments
RoundTrip(c, x) ==
    /\ pc[c] = "idle"
    /\ ArgsOk("EMG2")
    /\ LET q == CallCdf(ClassOf("EMG2"), x, Mu, Sig, Lam)
       IN last' = Rec("roundtrip", "EMG2", x, 0, "pair",
                      <<q, Ppf2(q, Mu, Sig, Lam)>>,
                      ArgcheckEvent("EMG2") \o <<Member("EMG2", "_cdf")>>
                          \o Ppf2Events(1))
    /\ Quiet

\* g.stats(mu, sig, lam, moments='mvsk')
StatsCall(c, g) ==
    /\ pc[c] = "idle"
    /\ last' = IF ArgsOk(g)
               THEN Rec("stats", g, 0, 0, "rec",
                        CallStats(ClassOf(g), Mu, Sig, Lam),
                        ArgcheckEvent(g) \o <<Member(g, "_stats")>>)
               ELSE Rec("stats", g, 0, 0, "num", NaN, ArgcheckEvent(g))
    /\ Quiet

\* name.fit(sample_emg, floc=0, fscale=1): the name is looked up first; the
\* fit of a bound generator returns its estimates of mu, sig, lam followed
\* by the fixed loc and scale
FitEstimates == {<<0, s * Step, l>> : s \in {2, 4}, l \in {50, 750}}
FitCell(c, name) ==
    /\ pc[c] = "idle"
    /\ \/ /\ name \notin Namespace
          /\ last' = Rec("fit", name, 0, 0, "raised", "NameError", <<>>)
       \/ /\ name \in Namespace
          /\ \E est \in FitEstimates :
                last' = Rec("fit", name, 0, 0, "tuple", est \o <<0, 1>>,
                            <<"rv_continuous.fit">>)
    /\ Quiet

(***************************************************************************)
(* g.rvs(mu, sig, lam, size=n, random_state=seed); seed 0 is None.          *)
(* The steps of one call: rvs checks the arguments, swaps in the caller's    *)
(* random state and stores the size in self._size; _rvs runs (in two steps   *)
(* for EMG_gen3, one per component draw); rvs restores the random state and  *)
(* returns.                                                                  *)
(***************************************************************************)
RvsCall(c, g, n, seed) ==
    /\ pc[c] = "idle"
    /\ IF ~ArgsOk(g)
       THEN /\ last' = Rec("rvs", g, n, seed, "raised", "ValueError",
                           ArgcheckEvent(g))
            /\ UNCHANGED <<size, rstate, rngpos, pc, frame>>
       ELSE /\ size' = [size EXCEPT ![g] = n]
            /\ rstate' = IF seed # 0 THEN [rstate EXCEPT ![g] = c] ELSE rstate
            /\ rngpos' = IF seed # 0
                         THEN [rngpos EXCEPT ![c] = SeedPos(seed)]
                         ELSE rngpos
            /\ frame' = [frame EXCEPT ![c] =
                            [g |-> g, n |-> n, seed |-> seed,
                             saved |-> rstate[g], part |-> <<>>,
                             vals |-> <<>>, trace |-> ArgcheckEvent(g),
                             err |-> FALSE, draws |-> <<>>]]
            /\ pc' = [pc EXCEPT ![c] = "body"]
            /\ last' = NoCall
    /\ UNCHANGED <<args, seeded>>

\* rv_continuous._rvs: U = self._random_state.random_sample(self._size),
\* Y = self._ppf(U, mu, sig, lam)
RvsInvert(c) ==
    LET g == frame[c].g
        m == size[g]
        s == rstate[g]
        U == DrawsAt("random_sample", m, rngpos[s])
    IN /\ pc[c] = "body"
       /\ Lookup(ClassOf(g), "_rvs") = "rv_continuous"
       /\ rngpos' = [rngpos EXCEPT ![s] = Advance(@, m)]
       /\ frame' = [frame EXCEPT
                       ![c].vals = CallPpf(ClassOf(g), U, Mu, Sig, Lam),
                       ![c].draws = <<U>>,
                       ![c].trace = @ \o <<"rv_continuous._rvs", "random_sample">>
                                      \o PpfEvents(ClassOf(g), m)]
       /\ pc' = [pc EXCEPT ![c] = "ret"]
       /\ UNCHANGED <<args, size, rstate, last, seeded>>

\* the stream st.norm.rvs and st.expon.rvs draw from: their own
\* _random_state, numpy's global one, whatever the caller's generator holds
ComponentStream(own) == 0

\* EMG_gen3._rvs, left operand: st.norm.rvs(loc=mu, scale=sig, size=self._size)
RvsNorm(c) ==
    LET g == frame[c].g
        m == size[g]
        s == ComponentStream(rstate[g])
        z == DrawsAt("standard_normal", m, rngpos[s])
    IN /\ pc[c] = "body"
       /\ Lookup(ClassOf(g), "_rvs") = "EMG_gen3"
       /\ rngpos' = [rngpos EXCEPT ![s] = Advance(@, m)]
       /\ frame' = [frame EXCEPT
                       ![c].part = [i \in 1..m |-> Mu + Sig * z[i]],
                       ![c].draws = <<[i \in 1..m |-> Mu + Sig * z[i]]>>,
                       ![c].trace = @ \o <<"EMG_gen3._rvs", "norm.rvs">>]
       /\ pc' = [pc EXCEPT ![c] = "expon"]
       /\ UNCHANGED <<args, size, rstate, last, seeded>>

\* EMG_gen3._rvs, right operand and the sum:
\* ... + st.expon.rvs(loc=0, scale=1/lam, size=self._size)
RvsExpon(c) ==
    LET g == frame[c].g
        m == size[g]
        s == ComponentStream(rstate[g])
        e == DrawsAt("standard_exponential", m, rngpos[s])
        ex == [i \in 1..m |-> (LenScale \div Lam) * e[i]]
    IN /\ pc[c] = "expon"
       /\ rngpos' = [rngpos EXCEPT ![s] = Advance(@, m)]
       /\ frame' = [frame EXCEPT
                       ![c].vals = IF CanBroadcast(frame[c].part, ex)
                                   THEN ArrayAdd(frame[c].part, ex)
                                   ELSE <<>>,
                       ![c].err = ~CanBroadcast(frame[c].part, ex),
                       ![c].draws = @ \o <<ex>>,
                       ![c].trace = @ \o <<"expon.rvs">>]
       /\ pc' = [pc EXCEPT ![c] = "ret"]
       /\ UNCHANGED <<args, size, rstate, last, seeded>>

\* rvs after _rvs: an exception of _rvs leaves rvs at once; otherwise the
\* saved random state is put back and the values are returned.  The caller's
\* RandomState is dropped with the call unless a generator still holds it.
RvsLeave(c) ==
    /\ pc[c] = "ret"
    /\ last' = IF frame[c].err
               THEN [Rec("rvs", frame[c].g, frame[c].n, frame[c].seed,
                         "raised", "ValueError", frame[c].trace)
                        EXCEPT !.draws = frame[c].draws]
               ELSE [Rec("rvs", frame[c].g, frame[c].n, frame[c].seed, "seq",
                         frame[c].vals, frame[c].trace)
                        EXCEPT !.draws = frame[c].draws]
    /\ rstate' = IF frame[c].seed # 0 /\ ~frame[c].err
                 THEN [rstate EXCEPT ![frame[c].g] = frame[c].saved]
                 ELSE rstate
    /\ rngpos' = IF c \in {rstate'[g] : g \in Gens}
                 THEN rngpos
                 ELSE [rngpos EXCEPT ![c] = 0]
    /\ pc' = [pc EXCEPT ![c] = "idle"]
    /\ frame' = [frame EXCEPT ![c] = NoFrame]
    /\ UNCHANGED <<args, size>>

RvsReturn(c) == RvsLeave(c) /\ UNCHANGED seeded

\* the same, remembering the first call with a random_state that returned
RvsReturnSeeded(c) ==
    /\ RvsLeave(c)
    /\ seeded' = IF seeded = NoCall /\ last'.seed # 0 /\ last'.kind = "seq"
                 THEN last'
                 ELSE seeded

(***************************************************************************)
(* Specifications.                                                         *)
(***************************************************************************)
\* one caller, every call
Next ==
    \/ \E g \in Gens : ArgcheckCall(1, g)
    \/ \E g \in Gens, x \in EvalX : PdfCall(1, g, x)
    \/ \E g \in Gens, x \in EvalX : CdfCall(1, g, x)
    \/ \E g \in Gens, q \in EvalQ : PpfCall(1, g, q)
    \/ \E g \in Gens : StatsCall(1, g)
    \/ \E name \in FitNames : FitCell(1, name)
    \/ \E g \in Gens, n \in 1..MaxSize, seed \in Seeds : RvsCall(1, g, n, seed)
    \/ RvsInvert(1)
    \/ RvsNorm(1)
    \/ RvsExpon(1)
    \/ RvsReturn(1)

Spec == Init /\ [][Next]_vars

\* one caller, the quantile of EMG2 over the whole range of x and q
NextTable ==
    \/ \E x \in XInputs : CdfCall(1, "EMG2", x)
    \/ \E q \in QInputs : PpfCall(1, "EMG2", q)
    \/ \E q \in QInputs : PpfDirect(1, q)
    \/ \E x \in XInputs : RoundTrip(1, x)

SpecTable == Init /\ [][NextTable]_vars

\* two callers, rvs calls on the same generator objects interleaved
NextConc ==
    \E c \in Callers :
        \/ \E g \in Gens, n \in 1..MaxSize : RvsCall(c, g, n, 0)
        \/ RvsInvert(c)
        \/ RvsNorm(c)
        \/ RvsExpon(c)
        \/ RvsReturn(c)

SpecConc == Init /\ [][NextConc]_vars

\* one caller, rvs calls one after the other
NextSeeded ==
    \/ \E g \in Gens, n \in 1..MaxSize, seed \in Seeds : RvsCall(1, g, n, seed)
    \/ RvsInvert(1)
    \/ RvsNorm(1)
    \/ RvsExpon(1)
    \/ RvsReturnSeeded(1)

SpecSeeded == Init /\ [][NextSeeded]_vars

(***************************************************************************)
(* Properties.                                                             *)
(***************************************************************************)
\* mu finite, sig > 0, lam > 0
ValidArgs ==
    /\ args.mu.k = "fin"
    /\ (args.sig.k = "fin" /\ args.sig.v > 0) \/ args.sig.k = "pinf"
    /\ (args.lam.k = "fin" /\ args.lam.v > 0) \/ args.lam.k = "pinf"

Count(e, seq) == Cardinality({i \in 1..Len(seq) : seq[i] = e})
OnlyArgcheck == last.trace = <<"EMG_gen1._argcheck">>
EvalOps == {"pdf", "cdf", "ppf", "rvs"}

\* the table EMG2._ppf builds from the session's arguments
T == TableFor(Mu, Sig, Lam)
TableSorted(t) == \A i \in 1..(Len(t.y) - 1) : Le(t.y[i], t.y[i + 1])

C2_ArgcheckExact ==
    last.op = "_argcheck" =>
        /\ last.val = ValidArgs
        /\ (args.sig.k = "fin" /\ args.sig.v <= 0) => last.val = FALSE
        /\ (args.lam.k = "fin" /\ args.lam.v <= 0) => last.val = FALSE
        /\ args.mu.k \in {"nan", "pinf", "ninf"} => last.val = FALSE

C2_Witness ==
    /\ last.op = "_argcheck"
    /\ args = [mu |-> Fin(0), sig |-> Fin(0), lam |-> Fin(50)]
    /\ last.val = FALSE

\* C3 as claimed: for valid parameters and every x, EMG2's
\* quantile(cumulative(x)) is a number no further from x than the 0.01 step
\* of the table, flat parts of the table and x outside its range included.
C3_RoundTripWithinStep ==
    last.op = "roundtrip" =>
        /\ ~IsNaN(last.val[2])
        /\ Abs(last.val[2] - last.inp) <= Step

\* C4 as claimed: every sample call on valid parameters returns exactly the
\* number of samples it requested, whatever other sample call runs on the
\* same generator in between.
C4_CountAsRequested ==
    (last.op = "rvs" /\ ValidArgs) =>
        (last.kind = "seq" /\ Len(last.val) = last.inp)

\* C5 as claimed: the fit call of the notebook, EMG.fit(sample_emg, floc=0,
\* fscale=1), completes and returns estimates of mu, sig and lam followed by
\* loc = 0 and scale = 1.
C5_FitKeepsFixed ==
    (last.op = "fit" /\ last.gen = "EMG") =>
        /\ last.kind = "tuple"
        /\ Len(last.val) = 5
        /\ last.val[4] = 0
        /\ last.val[5] = 1

\* C6 as claimed: two sample calls on the same generator with the same
\* parameters, the same count and the same seed return the same values.
C6_SeedDetermines ==
    ( /\ last.op = "rvs" /\ last.kind = "seq" /\ last.seed # 0
      /\ seeded.op = "rvs"
      /\ seeded.gen = last.gen /\ seeded.inp = last.inp
      /\ seeded.seed = last.seed )
    => last.val = seeded.val

\* C7: an EMG2 sample call of count N builds the interpolation table once
\* (one _ppf, one np.arange, one cdf pass, one np.interp) and maps all N
\* uniform draws through that one table.
C7_TableBuiltOncePerCall ==
    (last.op = "rvs" /\ last.gen = "EMG2" /\ last.kind = "seq") =>
        /\ Count("EMG_gen2._ppf", last.trace) = 1
        /\ Count("np.arange", last.trace) = 1
        /\ Count("EMG_gen1._cdf", last.trace) = 1
        /\ Count("np.interp", last.trace) = 1
        /\ Len(last.draws) = 1
        /\ Len(last.draws[1]) = last.inp
        /\ Len(last.val) = last.inp
        /\ \A i \in 1..last.inp :
               last.val[i] = Interp(last.draws[1][i], T.y, T.x)

C7_Witness ==
    /\ last.op = "rvs" /\ last.gen = "EMG2" /\ last.kind = "seq"
    /\ last.inp = 2
    /\ \E i \in 1..Len(last.val) : ~IsNaN(last.val[i])

\* C8: an EMG3 sample call of count N runs no quantile, cumulative or root
\* finder: it draws N values from normal(mu, sig), then N values from
\* exponential(scale 1/lam), and returns their element-wise sum.
C8_NormalPlusExponential ==
    (last.op = "rvs" /\ last.gen = "EMG3" /\ last.kind = "seq") =>
        /\ last.trace =
               <<"EMG_gen1._argcheck", "EMG_gen3._rvs", "norm.rvs", "expon.rvs">>
        /\ Len(last.draws) = 2
        /\ Len(last.draws[1]) = last.inp
        /\ Len(last.draws[2]) = last.inp
        /\ \A i \in 1..last.inp :
               /\ last.draws[1][i] \in {Mu + Sig * z : z \in -1..1}
               /\ last.draws[2][i] \in {(LenScale \div Lam) * e : e \in 0..1}
        /\ Len(last.val) = last.inp
        /\ \A i \in 1..last.inp :
               last.val[i] = last.draws[1][i] + last.draws[2][i]

C8_Witness ==
    /\ last.op = "rvs" /\ last.gen = "EMG3" /\ last.kind = "seq"
    /\ last.inp = 2
    /\ last.draws[2][1] # last.draws[2][2]

\* C9: EMG2 replaces only the quantile and EMG3 only the sampler: density,
\* cumulative, moments and validation run the members of EMG_gen1 and give
\* its results on every generator, and EMG3's quantile is the root-finding
\* quantile of EMG1.
C9_VariantsDifferInOneMember ==
    /\ last.op = "_argcheck" =>
           /\ OnlyArgcheck
           /\ last.val = Argcheck(args.mu, args.sig, args.lam)
    /\ (last.op \in {"pdf", "cdf", "stats"} /\ ~ValidArgs) =>
           (OnlyArgcheck /\ last.kind = "num" /\ IsNaN(last.val))
    /\ (last.op = "pdf" /\ ValidArgs) =>
           /\ last.trace = <<"EMG_gen1._argcheck", "EMG_gen1._pdf">>
           /\ last.val = Pdf(last.inp, Mu, Sig, Lam)
    /\ (last.op = "cdf" /\ ValidArgs) =>
           /\ last.trace = <<"EMG_gen1._argcheck", "EMG_gen1._cdf">>
           /\ last.val = Cdf(last.inp, Mu, Sig, Lam)
    /\ (last.op = "stats" /\ ValidArgs) =>
           /\ last.trace = <<"EMG_gen1._argcheck", "EMG_gen1._stats">>
           /\ last.val = Stats(Mu, Sig, Lam)
    /\ (last.op = "ppf" /\ ValidArgs /\ last.inp \in 1..(QLevels - 1)) =>
           IF last.gen = "EMG2"
           THEN Count("EMG_gen2._ppf", last.trace) = 1
           ELSE /\ last.trace =
                      <<"EMG_gen1._argcheck", "rv_continuous._ppf",
                        "_ppf_single", "brentq", "EMG_gen1._cdf">>
                /\ last.val = PpfSolve(last.inp, Mu, Sig, Lam)
    /\ (last.op = "rvs" /\ last.kind = "seq") =>
           IF last.gen = "EMG3"
           THEN Count("EMG_gen3._rvs", last.trace) = 1
           ELSE Count("rv_continuous._rvs", last.trace) = 1

C9_Witness ==
    /\ last.op = "ppf" /\ last.gen = "EMG3" /\ ValidArgs
    /\ last.kind = "num"
    /\ ~IsNaN(last.val)

\* C10 as claimed: the table EMG2._ppf builds has x rising from
\* mu - 50*sqrt(sig^2 + 1/lam^2) in steps of 0.01 to strictly below
\* mu + 50*sqrt(sig^2 + 1/lam^2) and cumulative values that never decrease;
\* the interpolated quantile never decreases in q and lies between the first
\* and the last x of the table.
C10_TableMonotone ==
    last.op = "_ppf" =>
        LET sd == Sqrt(Sig * Sig + (LenScale \div Lam) * (LenScale \div Lam))
            n == Len(T.x)
        IN /\ T.x[1] = Mu - RangeSds * sd
           /\ \A i \in 1..(n - 1) : T.x[i + 1] = T.x[i] + Step
           /\ T.x[n] < Mu + RangeSds * sd
           /\ TableSorted(T)
           /\ Le(T.x[1], last.val) /\ Le(last.val, T.x[n])
           /\ \A q \in 0..last.inp :
                  Le(Ppf2(q, Mu, Sig, Lam), last.val)

=============================================================================
